---- MODULE Spec2Model ----
(***************************************************************************)
(* Q-Learning / Double Q-Learning with eligibility traces for the CVRP,    *)
(* dynamic-fleet and fixed-fleet variants (CVRP_algoritmos_Murilo.py).     *)
(*                                                                         *)
(* Node, vehicle and episode indices are 0-based as in the source; tables  *)
(* are functions over 0..N-1; "rotas" is a sequence, so the source's       *)
(* rotas[veiculo] is rotas[veiculo + 1] here.                              *)
(*                                                                         *)
(* Real numbers (Q values, eligibilities, rewards, totals) are exact       *)
(* fractions [n, d] in lowest terms with d > 0; float('inf') and           *)
(* float('-inf') are [1, 0] and [-1, 0].  The environments below have      *)
(* integer pairwise Euclidean distances, so sqrt is exact.                 *)
(***************************************************************************)
EXTENDS Integers, Sequences, FiniteSets, TLC

\* ---------------------------------------------------------------- bounds
\* The run input "epocas" ranges over 1..MaxEpocas (single-table variants).
MaxEpocas == 3
\* Routes a dynamic-fleet episode may hold (a further opening is not taken).
MaxRotas == 4

\* ------------------------------------------------------------ arithmetic
Abs(x) == IF x < 0 THEN -x ELSE x

RECURSIVE GCD(_, _)
GCD(a, b) == IF b = 0 THEN a ELSE GCD(b, a % b)

\* The fraction n/d in lowest terms, sign carried by the numerator.
Rat(n, d) ==
    LET g == GCD(Abs(n), Abs(d))
        s == IF d < 0 THEN -1 ELSE 1
    IN  [n |-> s * (n \div g), d |-> s * (d \div g)]

RInt(k) == [n |-> k, d |-> 1]
Zero == RInt(0)
MaisInf == [n |-> 1, d |-> 0]
MenosInf == [n |-> -1, d |-> 0]

\* Sums and comparisons go through the least common denominator and products
\* are cross-reduced, which keeps the intermediate integers small.
Comum(a, b) == IF a.d = 0 \/ b.d = 0 THEN 1 ELSE GCD(a.d, b.d)
RAdd(a, b) ==
    LET g == Comum(a, b)
    IN  Rat(a.n * (b.d \div g) + b.n * (a.d \div g), (a.d \div g) * b.d)
RNeg(a) == [n |-> -a.n, d |-> a.d]
RSub(a, b) == RAdd(a, RNeg(b))
RMul(a, b) ==
    LET g1 == IF a.n = 0 \/ b.d = 0 THEN 1 ELSE GCD(Abs(a.n), b.d)
        g2 == IF b.n = 0 \/ a.d = 0 THEN 1 ELSE GCD(Abs(b.n), a.d)
    IN  Rat((a.n \div g1) * (b.n \div g2), (a.d \div g2) * (b.d \div g1))
RLt(a, b) ==
    LET g == Comum(a, b)
    IN  a.n * (b.d \div g) < b.n * (a.d \div g)

\* math.sqrt on a perfect square.
Sqrt(q) == CHOOSE r \in 0..q : r * r = q

\* ----------------------------------------------------------- environment
No(x, y, dem) == [CoordX |-> x, CoordY |-> y, Demanda |-> dem]

\* 3-4-5 triangle, both customers fit one vehicle.
Triangulo ==
    [Estados |-> <<No(0, 0, 0), No(3, 0, 1), No(3, 4, 1)>>,
     Capacidade |-> 5, Veiculos |-> 1]

\* 3 x 4 rectangle; two vehicles suffice only for the split {1,2},{3}.
Retangulo ==
    [Estados |-> <<No(0, 0, 0), No(3, 0, 2), No(3, 4, 2), No(0, 4, 3)>>,
     Capacidade |-> 4, Veiculos |-> 2]

\* Capacity smaller than every customer's demand.
Infactivel ==
    [Estados |-> <<No(0, 0, 0), No(3, 0, 2), No(3, 4, 3)>>,
     Capacidade |-> 1, Veiculos |-> 2]

\* A customer whose demand equals the capacity.
Justo ==
    [Estados |-> <<No(0, 0, 0), No(3, 0, 1), No(3, 4, 2)>>,
     Capacidade |-> 2, Veiculos |-> 2]

Ambientes == {Triangulo, Retangulo, Infactivel, Justo}

Variantes == {"QDin", "DQDin", "QFix", "DQFix"}
Lambdas == {RInt(0), RInt(1)}
\* taxaDesconto is a parameter of every variant; 1/2 keeps the fractions small.
Descontos == {Rat(1, 2)}
\* epsilon and the uniform(0, 1) draw, in tenths; the draw is in [0, 1).
Epsilons == {0, 10}
Sorteios == {0, 5}
Moedas == {"1", "2"}
\* Episode counts a run is given.  The coin of the double-table variants
\* multiplies the value tables an episode can end with, so their runs have
\* at most two episodes, and one on the rectangle.
Epocas(var, amb) ==
    IF var \in {"DQDin", "DQFix"}
    THEN IF amb = Retangulo THEN {1} ELSE {1, 2}
    ELSE 1..MaxEpocas

VARIABLES
    variante, ambiente, lambd, taxaDesconto, epsilon, epocas,
    pc, i, listEstadosVisitados, rotas, veiculo, estado,
    Q1, Q2, QVisitas, QElegibilidade,
    distanciaTotal, resultados, menorDistancia, menorRotas,
    historico   \* the route set each completed episode produced, in order

entradas == <<variante, ambiente, lambd, taxaDesconto, epsilon, epocas>>
tabelas == <<Q1, Q2, QVisitas, QElegibilidade>>
melhor == <<resultados, menorDistancia, menorRotas, historico>>
vars == <<variante, ambiente, lambd, taxaDesconto, epsilon, epocas,
          pc, i, listEstadosVisitados, rotas, veiculo, estado,
          Q1, Q2, QVisitas, QElegibilidade,
          distanciaTotal, resultados, menorDistancia, menorRotas, historico>>

Dinamico == variante \in {"QDin", "DQDin"}
Duplo == variante \in {"DQDin", "DQFix"}

quantidadeEstados == Len(ambiente.Estados)
Nos == 0..(quantidadeEstados - 1)
Consumidores == 1..(quantidadeEstados - 1)
Demanda(amb, k) == amb.Estados[k + 1].Demanda

\* ---------------------------------------------------------- pure helpers
Recompensa(distancia, demanda, capacidadeVeiculo) ==
    Rat(-distancia, capacidadeVeiculo - demanda)

\* A division that never fails.
RecompensaSemFalha(demanda, capacidadeVeiculo) == FALSE

\* ZeroDivisionError of Recompensa.
RecompensaFalha(demanda, capacidadeVeiculo) == capacidadeVeiculo - demanda = 0

\* The filter without the capacity test.
ValidaAcoesSemCapacidade(acoesPossiveis, visitados, demandaRotaAcumulada, amb, VeiculosDinamicos) ==
    [acoes |-> [k \in DOMAIN acoesPossiveis |->
                    IF visitados[k] = TRUE THEN MenosInf ELSE acoesPossiveis[k]],
     permissao |-> [k \in DOMAIN acoesPossiveis |->
                    IF visitados[k] = TRUE THEN 0 ELSE 1]]

\* The filter with the capacity test applied whatever the flag.
ValidaAcoesSempreCapacidade(acoesPossiveis, visitados, demandaRotaAcumulada, amb, VeiculosDinamicos) ==
    LET ilegal(k) ==
            \/ visitados[k] = TRUE
            \/ demandaRotaAcumulada + Demanda(amb, k) > amb.Capacidade
    IN  [acoes |-> [k \in DOMAIN acoesPossiveis |->
                        IF ilegal(k) THEN MenosInf ELSE acoesPossiveis[k]],
         permissao |-> [k \in DOMAIN acoesPossiveis |->
                        IF ilegal(k) THEN 0 ELSE 1]]

ValidaAcoes(acoesPossiveis, visitados, demandaRotaAcumulada, amb, VeiculosDinamicos) ==
    LET ilegal(k) ==
            \/ visitados[k] = TRUE
            \/ /\ demandaRotaAcumulada + Demanda(amb, k) > amb.Capacidade
               /\ VeiculosDinamicos = TRUE
    IN  [acoes |-> [k \in DOMAIN acoesPossiveis |->
                        IF ilegal(k) THEN MenosInf ELSE acoesPossiveis[k]],
         permissao |-> [k \in DOMAIN acoesPossiveis |->
                        IF ilegal(k) THEN 0 ELSE 1]]

\* min(acoes)
Minimo(acoes) ==
    CHOOSE v \in {acoes[k] : k \in DOMAIN acoes} :
        \A k \in DOMAIN acoes : ~RLt(acoes[k], v)

\* max(acoes)
Maximo(acoes) ==
    CHOOSE v \in {acoes[k] : k \in DOMAIN acoes} :
        \A k \in DOMAIN acoes : ~RLt(v, acoes[k])

\* acoes.index(valor)
Indice(acoes, valor) ==
    CHOOSE k \in DOMAIN acoes :
        /\ acoes[k] = valor
        /\ \A j \in DOMAIN acoes : j < k => acoes[j] # valor

MaxQ(acoes) == Indice(acoes, Maximo(acoes))

RECURSIVE Soma(_, _)
Soma(f, S) ==
    IF S = {} THEN 0
    ELSE LET k == CHOOSE x \in S : TRUE IN f[k] + Soma(f, S \ {k})

Erro == -1

\* u is the uniform(0, 1) draw (tenths); k is the position numpy.random.choice
\* draws, which has non-zero probability.  Erro is the ZeroDivisionError of
\* permissao[i]/somatoria.
Politica(eps, acoes, permissao, u, k) ==
    IF u > eps
    THEN IF Soma(permissao, DOMAIN permissao) = 0
         THEN Erro
         ELSE Indice(acoes, acoes[k])
    ELSE Indice(acoes, Maximo(acoes))

\* Positions numpy.random.choice can draw under p = permissao/somatoria.
Sorteaveis(permissao) ==
    IF Soma(permissao, DOMAIN permissao) = 0 THEN DOMAIN permissao
    ELSE {k \in DOMAIN permissao : permissao[k] = 1}

\* 1/visitas
TaxaAprendizagemSemUm(visitas) == Rat(1, visitas)

TaxaAprendizagem(visitas) == Rat(1, 1 + visitas)

CriaMatriz(n) == [a \in 0..(n - 1) |-> [b \in 0..(n - 1) |-> Zero]]
CriaMatrizInt(n) == [a \in 0..(n - 1) |-> [b \in 0..(n - 1) |-> 0]]

RotaNova == [Demanda |-> 0, Custo |-> 0, Consumidores |-> <<0>>]

\* The first route of maximum demand.
EscolheRotaMaior(rs) ==
    CHOOSE k \in 0..(Len(rs) - 1) :
        /\ \A j \in 0..(Len(rs) - 1) : rs[k + 1].Demanda >= rs[j + 1].Demanda
        /\ \A j \in 0..(Len(rs) - 1) :
              j < k => rs[j + 1].Demanda # rs[k + 1].Demanda

\* The last route of minimum demand instead of the first.
EscolheRotaUltimoEmpate(rs) ==
    CHOOSE k \in 0..(Len(rs) - 1) :
        /\ \A j \in 0..(Len(rs) - 1) : rs[k + 1].Demanda <= rs[j + 1].Demanda
        /\ \A j \in 0..(Len(rs) - 1) :
              j > k => rs[j + 1].Demanda # rs[k + 1].Demanda

EscolheRota(rs) ==
    CHOOSE k \in 0..(Len(rs) - 1) :
        /\ \A j \in 0..(Len(rs) - 1) : rs[k + 1].Demanda <= rs[j + 1].Demanda
        /\ \A j \in 0..(Len(rs) - 1) :
              j < k => rs[j + 1].Demanda # rs[k + 1].Demanda

\* One route more than the fleet size.
CriaRotasMaisUma(quantidadeVeiculos) == [k \in 1..(quantidadeVeiculos + 1) |-> RotaNova]

CriaRotas(quantidadeVeiculos) == [k \in 1..quantidadeVeiculos |-> RotaNova]

Distancia(amb, de, para) ==
    LET a == amb.Estados[de + 1]
        b == amb.Estados[para + 1]
    IN  Sqrt((a.CoordX - b.CoordX) * (a.CoordX - b.CoordX)
             + (a.CoordY - b.CoordY) * (a.CoordY - b.CoordY))

\* The node inserted at the front of the sequence.
AtualizaRotaNaFrente(rotaAtual, est, acao, amb) ==
    [Demanda |-> rotaAtual.Demanda + Demanda(amb, acao),
     Custo |-> rotaAtual.Custo + Distancia(amb, est, acao),
     Consumidores |-> <<acao>> \o rotaAtual.Consumidores]

\* The node appended and the cost added, the demand left as it was.
AtualizaRotaSemDemanda(rotaAtual, est, acao, amb) ==
    [Demanda |-> rotaAtual.Demanda,
     Custo |-> rotaAtual.Custo + Distancia(amb, est, acao),
     Consumidores |-> Append(rotaAtual.Consumidores, acao)]

AtualizaRota(rotaAtual, est, acao, amb) ==
    [Demanda |-> rotaAtual.Demanda + Demanda(amb, acao),
     Custo |-> rotaAtual.Custo + Distancia(amb, est, acao),
     Consumidores |-> Append(rotaAtual.Consumidores, acao)]

Ultimo(s) == s[Len(s)]
\* The loop test with "> 1" for "!= 0".
NaoVisitadosMenosUm(visitados) ==
    LET S == {k \in DOMAIN visitados : visitados[k] = FALSE}
    IN  IF Cardinality(S) > 1 THEN S ELSE {}

\* The count taken over the customers only.
NaoVisitadosSoConsumidores(visitados) ==
    {k \in DOMAIN visitados : k # 0 /\ visitados[k] = FALSE}

\* The entries counted by listEstadosVisitados.count(False).
NaoVisitados(visitados) == {k \in DOMAIN visitados : visitados[k] = FALSE}

\* Row of values the policy ranks: Q[estado], or Q1[estado] + Q2[estado].
LinhaPolitica(est) ==
    IF Duplo THEN [k \in Nos |-> RAdd(Q1[est][k], Q2[est][k])] ELSE Q1[est]

\* valorAcaoFutura, from the masked vector of the state just left.
ValorAcaoFutura(Qboot, acoes, acao) ==
    IF \A k \in DOMAIN acoes : acoes[k] = MenosInf
    THEN IF Dinamico THEN Zero ELSE Qboot[acao][0]
    ELSE Qboot[acao][MaxQ(acoes)]

\* The backward walk over the current route; j is the source's loop index,
\* so the pair is (cons[j-1], cons[j]) there and (cons[j], cons[j+1]) here.
RECURSIVE Retrocede(_, _, _, _, _, _, _, _)
Retrocede(Qt, El, cons, j, taxa, alvo, est, acao) ==
    IF j = 0 THEN [Q |-> Qt, E |-> El]
    ELSE LET u == cons[j]
             v == cons[j + 1]
             Qn == [Qt EXCEPT ![u][v] =
                      RAdd(Qt[u][v],
                           RMul(RMul(taxa, RSub(alvo, Qt[est][acao])), El[u][v]))]
             En == [El EXCEPT ![u][v] = RMul(RMul(lambd, taxaDesconto), El[u][v])]
         IN  Retrocede(Qn, En, cons, j - 1, taxa, alvo, est, acao)

\* The update of one value table for the pair (est, acao): single entry when
\* lambd = 0, backward walk otherwise.  Vis and El are already incremented.
Credito(Qt, El, Vis, cons, est, acao, distancia, fut) ==
    LET taxa == TaxaAprendizagem(Vis[est][acao])
        alvo == RAdd(Recompensa(distancia, Demanda(ambiente, acao), ambiente.Capacidade),
                     RMul(taxaDesconto, fut))
    IN  IF lambd = Zero
        THEN [Q |-> [Qt EXCEPT ![est][acao] =
                        RAdd(Qt[est][acao], RMul(taxa, RSub(alvo, Qt[est][acao])))],
              E |-> El]
        ELSE Retrocede(Qt, El, cons, Len(cons) - 1, taxa, alvo, est, acao)

\* The bootstrap value read from the table that is being updated.
TabelaFuturaPropria(moeda) == IF Duplo /\ moeda = "2" THEN Q2 ELSE Q1

\* The table valorAcaoFutura is read from: Q2 when the coin updates Q1, Q1
\* when it updates Q2, and Q itself in the single-table variants.
TabelaFutura(moeda) == IF Duplo /\ moeda = "1" THEN Q2 ELSE Q1

\* Bookkeeping of one chosen action up to the value-table update; moeda is
\* the outcome of choice(["1","2"]) (ignored by the single-table variants).
Aprende(v, est, acao, acoes, moeda, fechamento) ==
    LET rota2 == AtualizaRota(rotas[v + 1], est, acao, ambiente)
        distancia == Distancia(ambiente, est, acao)
        acoes2 == [acoes EXCEPT ![acao] = MenosInf]
        E2 == [QElegibilidade EXCEPT ![est][acao] = RAdd(@, RInt(1))]
        V2 == [QVisitas EXCEPT ![est][acao] = @ + 1]
        emQ1 == ~Duplo \/ moeda = "1"
        Qboot == TabelaFutura(moeda)
        fut == IF fechamento THEN Zero ELSE ValorAcaoFutura(Qboot, acoes2, acao)
        falha == RecompensaFalha(Demanda(ambiente, acao), ambiente.Capacidade)
        cred == Credito(IF emQ1 THEN Q1 ELSE Q2, E2, V2, rota2.Consumidores,
                        est, acao, distancia, fut)
    IN  [falha |-> falha,
         rotas |-> [rotas EXCEPT ![v + 1] = rota2],
         V |-> V2,
         E |-> IF falha THEN E2 ELSE cred.E,
         Q1 |-> IF falha \/ ~emQ1 THEN Q1 ELSE cred.Q,
         Q2 |-> IF falha \/ emQ1 THEN Q2 ELSE cred.Q]

\* The depot stays marked after a customer was chosen.
DepositoFechado(visitados, acao) == visitados

\* "Continua ou cria uma nova rota": choosing a customer unmarks the depot.
DepositoReaberto(visitados, acao) ==
    IF acao # 0 THEN [visitados EXCEPT ![0] = FALSE] ELSE visitados

\* A new route is opened on every return to the depot.
AbreRotaSempre(visitados, acao) == acao = 0

\* "if (listEstadosVisitados.count(False) != 0)" under "acao == 0": a new
\* route is opened on a return to the depot while something is unvisited.
AbreRota(visitados, acao) == acao = 0 /\ NaoVisitados(visitados) # {}

\* ------------------------------------------------------------------ Init
\* Run start up to the head of the first episode's routing loop.
Init ==
    /\ variante \in Variantes
    /\ ambiente \in Ambientes
    /\ lambd \in Lambdas
    /\ taxaDesconto \in Descontos
    /\ epsilon \in Epsilons
    /\ epocas \in Epocas(variante, ambiente)
    /\ i = 0
    /\ listEstadosVisitados = [k \in Nos |-> k = 0]
    /\ rotas = IF Dinamico THEN <<RotaNova>> ELSE CriaRotas(ambiente.Veiculos)
    /\ veiculo = 0
    /\ estado = 0
    /\ Q1 = CriaMatriz(quantidadeEstados)
    /\ Q2 = CriaMatriz(quantidadeEstados)
    /\ QVisitas = CriaMatrizInt(quantidadeEstados)
    /\ QElegibilidade = CriaMatriz(quantidadeEstados)
    /\ distanciaTotal = Zero
    /\ resultados = <<>>
    /\ menorDistancia = Zero
    /\ menorRotas = <<>>
    /\ historico = <<>>
    /\ pc = "rota"

\* --------------------------------------------------------------- actions
\* One iteration of the dynamic-fleet routing loop.
PassoDinamico ==
    /\ pc = "rota"
    /\ Dinamico
    /\ NaoVisitados(listEstadosVisitados) # {}
    /\ \E u \in Sorteios, moeda \in Moedas :
         LET val == ValidaAcoes(LinhaPolitica(estado), listEstadosVisitados,
                                rotas[veiculo + 1].Demanda, ambiente, TRUE)
         IN  \E k \in Sorteaveis(val.permissao) :
               LET acao == Politica(epsilon, val.acoes, val.permissao, u, k)
               IN  IF acao = Erro
                   THEN /\ pc' = "erro"
                        /\ UNCHANGED <<entradas, i, listEstadosVisitados, rotas,
                                       veiculo, estado, tabelas, distanciaTotal,
                                       melhor>>
                   ELSE LET r == Aprende(veiculo, estado, acao, val.acoes, moeda, FALSE)
                            vis2 == [listEstadosVisitados EXCEPT ![acao] = TRUE]
                            vis3 == DepositoReaberto(vis2, acao)
                            abre == AbreRota(vis2, acao)
                        IN  IF r.falha
                            THEN /\ pc' = "erro"
                                 /\ listEstadosVisitados' = vis2
                                 /\ rotas' = r.rotas
                                 /\ QVisitas' = r.V
                                 /\ QElegibilidade' = r.E
                                 /\ UNCHANGED <<entradas, i, veiculo, estado, Q1, Q2,
                                                distanciaTotal, melhor>>
                            ELSE /\ abre => Len(rotas) < MaxRotas
                                 /\ listEstadosVisitados' = vis3
                                 /\ rotas' = IF abre THEN Append(r.rotas, RotaNova)
                                             ELSE r.rotas
                                 /\ veiculo' = IF abre THEN veiculo + 1 ELSE veiculo
                                 /\ estado' = acao
                                 /\ Q1' = r.Q1
                                 /\ Q2' = r.Q2
                                 /\ QVisitas' = r.V
                                 /\ QElegibilidade' = r.E
                                 /\ pc' = IF NaoVisitados(vis3) = {} THEN "finaliza"
                                          ELSE "rota"
                                 /\ UNCHANGED <<entradas, i, distanciaTotal, melhor>>

\* One iteration of the fixed-fleet routing loop.
PassoFixo ==
    /\ pc = "rota"
    /\ ~Dinamico
    /\ NaoVisitados(listEstadosVisitados) # {}
    /\ \E u \in Sorteios, moeda \in Moedas :
         LET v == EscolheRota(rotas)
             est == Ultimo(rotas[v + 1].Consumidores)
             val == ValidaAcoes(LinhaPolitica(est), listEstadosVisitados,
                                rotas[v + 1].Demanda, ambiente, FALSE)
         IN  \E k \in Sorteaveis(val.permissao) :
               LET acao == Politica(epsilon, val.acoes, val.permissao, u, k)
               IN  IF acao = Erro
                   THEN /\ pc' = "erro"
                        /\ veiculo' = v
                        /\ estado' = est
                        /\ UNCHANGED <<entradas, i, listEstadosVisitados, rotas,
                                       tabelas, distanciaTotal, melhor>>
                   ELSE LET r == Aprende(v, est, acao, val.acoes, moeda, FALSE)
                            vis2 == [listEstadosVisitados EXCEPT ![acao] = TRUE]
                            sai == ~r.falha /\ NaoVisitados(vis2) = {}
                        IN  /\ veiculo' = IF sai THEN 0 ELSE v
                            /\ estado' = est
                            /\ listEstadosVisitados' = vis2
                            /\ rotas' = r.rotas
                            /\ Q1' = r.Q1
                            /\ Q2' = r.Q2
                            /\ QVisitas' = r.V
                            /\ QElegibilidade' = r.E
                            /\ pc' = IF r.falha THEN "erro"
                                     ELSE IF sai THEN "fecha" ELSE "rota"
                            /\ distanciaTotal' = IF sai THEN Zero ELSE distanciaTotal
                            /\ UNCHANGED <<entradas, i, melhor>>

\* The dynamic-fleet total: every iteration re-applies the fleet-size penalty
\* and then adds the route's cost.
RECURSIVE TotalDinamico(_, _, _, _)
TotalDinamico(rs, amb, k, total) ==
    IF k > Len(rs) THEN total
    ELSE LET t == IF Len(rs) > amb.Veiculos THEN MaisInf ELSE total
         IN  TotalDinamico(rs, amb, k + 1, RAdd(t, RInt(rs[k].Custo)))

\* The capacity penalty with >= for >.
TotalFixoMaiorIgual(rota, amb, total) ==
    LET t == IF rota.Demanda >= amb.Capacidade THEN MaisInf ELSE total
    IN  RAdd(t, RInt(rota.Custo))

\* The fixed-fleet total after closing one route: capacity penalty, then cost.
TotalFixo(rota, amb, total) ==
    LET t == IF rota.Demanda > amb.Capacidade THEN MaisInf ELSE total
    IN  RAdd(t, RInt(rota.Custo))

\* Dynamic fleet: distanciaTotal over the routes built by the episode.
Finaliza ==
    /\ pc = "finaliza"
    /\ Dinamico
    /\ distanciaTotal' = TotalDinamico(rotas, ambiente, 1, Zero)
    /\ veiculo' = Len(rotas) - 1
    /\ pc' = "registra"
    /\ UNCHANGED <<entradas, i, listEstadosVisitados, rotas, estado, tabelas, melhor>>

\* Fixed fleet: the closing leg of route "veiculo", its update and its share
\* of distanciaTotal.
FechaRota ==
    /\ pc = "fecha"
    /\ ~Dinamico
    /\ \E moeda \in Moedas :
         LET est == Ultimo(rotas[veiculo + 1].Consumidores)
             r == Aprende(veiculo, est, 0, [k \in Nos |-> MenosInf], moeda, TRUE)
             ultima == veiculo + 1 = Len(rotas)
         IN  /\ estado' = est
             /\ rotas' = r.rotas
             /\ Q1' = r.Q1
             /\ Q2' = r.Q2
             /\ QVisitas' = r.V
             /\ QElegibilidade' = r.E
             /\ distanciaTotal' =
                  IF r.falha THEN distanciaTotal
                  ELSE TotalFixo(r.rotas[veiculo + 1], ambiente, distanciaTotal)
             /\ veiculo' = IF r.falha \/ ultima THEN veiculo ELSE veiculo + 1
             /\ pc' = IF r.falha THEN "erro"
                      ELSE IF ultima THEN "registra" ELSE "fecha"
             /\ UNCHANGED <<entradas, i, listEstadosVisitados, melhor>>

\* distanciaTotal <= menorDistancia: a tie replaces the retained result.
MelhoraOuEmpata(total, menor) == ~RLt(menor, total)

\* distanciaTotal < menorDistancia
Melhora(total, menor) == RLt(total, menor)

\* Best-result tracking: the episode's total joins "resultados" and replaces
\* the retained best on episode 0 or when strictly smaller.
Registra ==
    /\ pc = "registra"
    /\ resultados' = Append(resultados, distanciaTotal)
    /\ historico' = Append(historico, rotas)
    /\ LET md == IF i = 0 THEN distanciaTotal ELSE menorDistancia
           mr == IF i = 0 THEN rotas ELSE menorRotas
       IN  IF Melhora(distanciaTotal, md)
           THEN menorDistancia' = distanciaTotal /\ menorRotas' = rotas
           ELSE menorDistancia' = md /\ menorRotas' = mr
    /\ pc' = "done"
    /\ UNCHANGED <<entradas, i, listEstadosVisitados, rotas, veiculo, estado,
                   tabelas, distanciaTotal>>

\* The next iteration without a fresh QElegibilidade.
ProximoEpisodioSemReinicio ==
    /\ pc = "done"
    /\ i + 1 < epocas
    /\ i' = i + 1
    /\ listEstadosVisitados' = [k \in Nos |-> k = 0]
    /\ rotas' = IF Dinamico THEN <<RotaNova>> ELSE CriaRotas(ambiente.Veiculos)
    /\ veiculo' = IF Dinamico THEN 0 ELSE veiculo
    /\ estado' = IF Dinamico THEN 0 ELSE estado
    /\ pc' = "rota"
    /\ UNCHANGED <<entradas, tabelas, distanciaTotal, melhor>>

\* The next iteration of "for i in range(epocas)" up to its routing loop.
ProximoEpisodio ==
    /\ pc = "done"
    /\ i + 1 < epocas
    /\ i' = i + 1
    /\ listEstadosVisitados' = [k \in Nos |-> k = 0]
    /\ rotas' = IF Dinamico THEN <<RotaNova>> ELSE CriaRotas(ambiente.Veiculos)
    /\ veiculo' = IF Dinamico THEN 0 ELSE veiculo
    /\ estado' = IF Dinamico THEN 0 ELSE estado
    /\ QElegibilidade' = CriaMatriz(quantidadeEstados)
    /\ pc' = "rota"
    /\ UNCHANGED <<entradas, Q1, Q2, QVisitas, distanciaTotal, melhor>>

\* return menorDistancia, menorRotas, resultados
Retorna ==
    /\ pc = "done"
    /\ i + 1 = epocas
    /\ pc' = "fim"
    /\ UNCHANGED <<entradas, i, listEstadosVisitados, rotas, veiculo, estado,
                   tabelas, distanciaTotal, melhor>>

Next ==
    \/ PassoDinamico
    \/ PassoFixo
    \/ Finaliza
    \/ FechaRota
    \/ Registra
    \/ ProximoEpisodio
    \/ Retorna

Spec == Init /\ [][Next]_vars

\* ================================================================ claims
Completo == pc \in {"done", "fim"}

\* Occurrences of node c over all routes' sequences.
RECURSIVE Ocorrencias(_, _, _)
Ocorrencias(rs, c, k) ==
    IF k > Len(rs) THEN 0
    ELSE Cardinality({j \in 1..Len(rs[k].Consumidores) : rs[k].Consumidores[j] = c})
         + Ocorrencias(rs, c, k + 1)

RECURSIVE SomaCustos(_, _)
SomaCustos(rs, k) == IF k > Len(rs) THEN 0 ELSE rs[k].Custo + SomaCustos(rs, k + 1)

\* C1 -- Coverage: when an episode is complete, every customer 1..N-1 occurs
\* exactly once over the sequences of all routes, in all four variants.
C1_Cobertura ==
    Completo => \A c \in Consumidores : Ocorrencias(rotas, c, 1) = 1

\* A completed episode on the rectangle that used more than one route.
C1_Witness ==
    /\ pc = "done"
    /\ ambiente = Retangulo
    /\ Len(rotas) >= 2
    /\ \E k \in 1..Len(rotas) : Len(rotas[k].Consumidores) >= 4

\* C2 -- Termination: in every environment and variant every episode that is
\* started leaves the routing loop, is finalized and logged; no run stops in
\* an episode that has not reached its end.
C2_Termina == pc # "erro"

\* C3 -- Penalty dominance: the total of a completed episode is +infinity when
\* a route exceeds the capacity (fixed fleet) or more routes than vehicles
\* were opened (dynamic fleet), and the finite sum of the routes' costs
\* otherwise; it is the value logged for the episode.
Viola ==
    IF Dinamico THEN Len(rotas) > ambiente.Veiculos
    ELSE \E k \in 1..Len(rotas) : rotas[k].Demanda > ambiente.Capacidade

C3_Penalidade ==
    pc = "done" =>
        /\ distanciaTotal = IF Viola THEN MaisInf ELSE RInt(SomaCustos(rotas, 1))
        /\ resultados[Len(resultados)] = distanciaTotal

\* Fixed fleet: the first route is overloaded and the last one is not.
C3_Witness ==
    /\ pc = "done"
    /\ ~Dinamico
    /\ rotas[1].Demanda > ambiente.Capacidade
    /\ rotas[Len(rotas)].Demanda <= ambiente.Capacidade
    /\ rotas[Len(rotas)].Custo > 0
    /\ distanciaTotal = MaisInf

\* C4 -- Feasibility, dynamic fleet: a completed episode with a finite total
\* has no route whose demand exceeds the capacity.
C4_Factivel ==
    (Dinamico /\ pc = "done" /\ distanciaTotal # MaisInf) =>
        \A k \in 1..Len(rotas) : rotas[k].Demanda <= ambiente.Capacidade

\* A finite dynamic-fleet episode with a route serving two customers.
C4_Witness ==
    /\ Dinamico
    /\ pc = "done"
    /\ distanciaTotal # MaisInf
    /\ \E k \in 1..Len(rotas) : Len(rotas[k].Consumidores) >= 4

\* C5 -- Infeasible capacity: when the capacity is below every customer's
\* demand, no variant aborts with an error and every logged total is
\* +infinity.
CapacidadeInsuficiente ==
    \A c \in Consumidores : ambiente.Capacidade < Demanda(ambiente, c)

C5_SempreInfinito ==
    CapacidadeInsuficiente =>
        /\ pc # "erro"
        /\ \A k \in 1..Len(resultados) : resultados[k] = MaisInf

\* C6 -- 3-4-5 triangle, lambda = 0, epsilon = 0, one episode: every variant
\* ends with the single route [0,1,2,0] or [0,2,1,0] and total 12.
C6_Triangulo ==
    (/\ ambiente = Triangulo
     /\ lambd = Zero
     /\ epsilon = 0
     /\ epocas = 1
     /\ Completo) =>
        /\ Len(rotas) = 1
        /\ rotas[1].Consumidores \in {<<0, 1, 2, 0>>, <<0, 2, 1, 0>>}
        /\ distanciaTotal = RInt(12)

\* C7 -- Best-result tracking: after each completed episode "resultados" has
\* one entry per episode so far, menorDistancia is its minimum and menorRotas
\* is the route set of the earliest episode attaining it.
PrimeiroMinimo(rs) ==
    CHOOSE k \in 1..Len(rs) :
        /\ \A j \in 1..Len(rs) : ~RLt(rs[j], rs[k])
        /\ \A j \in 1..(k - 1) : RLt(rs[k], rs[j])

C7_MelhorResultado ==
    Completo =>
        /\ Len(resultados) = i + 1
        /\ Len(historico) = i + 1
        /\ pc = "fim" => Len(resultados) = epocas
        /\ menorDistancia = resultados[PrimeiroMinimo(resultados)]
        /\ menorRotas = historico[PrimeiroMinimo(resultados)]

\* Two episodes with equal totals and different route sets.
C7_Witness ==
    /\ pc = "fim"
    /\ epocas = 2
    /\ resultados[1] = resultados[2]
    /\ historico[1] # historico[2]
    /\ menorRotas = historico[1]

\* C8 -- Route shape: every route's sequence starts with 0 in every state,
\* and ends with 0 once the episode is complete.
C8_FormaDaRota ==
    /\ \A k \in 1..Len(rotas) : rotas[k].Consumidores[1] = 0
    /\ Completo => \A k \in 1..Len(rotas) : Ultimo(rotas[k].Consumidores) = 0

\* A completed fixed-fleet episode with a route of two customers.
C8_Witness ==
    /\ pc = "done"
    /\ ~Dinamico
    /\ \E k \in 1..Len(rotas) :
         /\ Len(rotas[k].Consumidores) >= 4
         /\ rotas[k].Consumidores[2] # 0

\* The legality vector of the Politica call the routing loop is about to make.
PermissaoAtual ==
    IF Dinamico
    THEN ValidaAcoes(LinhaPolitica(estado), listEstadosVisitados,
                     rotas[veiculo + 1].Demanda, ambiente, TRUE).permissao
    ELSE LET v == EscolheRota(rotas)
         IN  ValidaAcoes(LinhaPolitica(Ultimo(rotas[v + 1].Consumidores)),
                         listEstadosVisitados, rotas[v + 1].Demanda,
                         ambiente, FALSE).permissao

NaCabecaDoLaco == pc = "rota" /\ NaoVisitados(listEstadosVisitados) # {}

\* C9 -- Loop invariant: at every call of Politica in the routing loop the
\* legality vector holds at least one 1, in every variant and environment.
C9_AcaoLegal ==
    NaCabecaDoLaco => Soma(PermissaoAtual, DOMAIN PermissaoAtual) >= 1

ConsumidorPendente == \E c \in Consumidores : listEstadosVisitados[c] = FALSE

\* C10 (as stated) -- Dynamic fleet: while a customer is unvisited the depot's
\* entry of listEstadosVisitados is False.
C10_DepositoNuncaVisitado ==
    (Dinamico /\ pc = "rota" /\ ConsumidorPendente) =>
        listEstadosVisitados[0] = FALSE

\* C10 (amended) -- Dynamic fleet: at the head of the routing loop, while a
\* customer is unvisited, the depot's entry is False exactly when the current
\* node is a customer, and True while the vehicle stands at the depot.
C10_DepositoConformeEstado ==
    (Dinamico /\ pc = "rota" /\ ConsumidorPendente) =>
        (listEstadosVisitados[0] = FALSE <=> estado # 0)

\* At a customer, mid-route, with another customer still to visit.
C10_Witness ==
    /\ Dinamico
    /\ pc = "rota"
    /\ ConsumidorPendente
    /\ estado # 0
    /\ listEstadosVisitados[0] = FALSE

\* The head of an episode: the routing loop has not chosen an action yet.
InicioDeEpisodio ==
    /\ pc = "rota"
    /\ listEstadosVisitados = [k \in Nos |-> k = 0]
    /\ \A k \in 1..Len(rotas) : rotas[k] = RotaNova

\* C11 -- Eligibility reset and table persistence: in every variant every
\* episode starts with all entries of QElegibilidade exactly zero, and the
\* step from the end of one episode to the start of the next leaves the value
\* table(s) and QVisitas as they were at the end of the previous episode.
C11_ReinicioDaElegibilidade ==
    [][/\ InicioDeEpisodio' =>
            \A a \in Nos, b \in Nos : QElegibilidade'[a][b] = Zero
       /\ (pc = "done" /\ pc' = "rota") =>
            /\ i' = i + 1
            /\ Q1' = Q1
            /\ Q2' = Q2
            /\ QVisitas' = QVisitas]_vars

\* The start of a later episode with learnt values and counted visits.
C11_Witness ==
    /\ InicioDeEpisodio
    /\ i >= 1
    /\ \E a \in Nos, b \in Nos : Q1[a][b] # Zero /\ QVisitas[a][b] > 0
    /\ \A a \in Nos, b \in Nos : QElegibilidade[a][b] = Zero

\* C12 -- ValidaAcoes: index k is marked illegal (acoes[k] = -infinity and
\* permissao[k] = 0) if and only if listEstadosVisitados[k] is True, or
\* VeiculosDinamicos is True and demandaRotaAcumulada + demand(k) exceeds the
\* capacity; otherwise acoes[k] is the input value and permissao[k] = 1.  With
\* VeiculosDinamicos False the demand never makes an action illegal.  Stated
\* for the call of every routing step and for both values of the flag.
C12_ValidaAcoes ==
    NaCabecaDoLaco =>
        \A d \in BOOLEAN :
            LET v == IF Dinamico THEN veiculo ELSE EscolheRota(rotas)
                est == IF Dinamico THEN estado ELSE Ultimo(rotas[v + 1].Consumidores)
                linha == LinhaPolitica(est)
                dem == rotas[v + 1].Demanda
                val == ValidaAcoes(linha, listEstadosVisitados, dem, ambiente, d)
                marcado(k) == val.acoes[k] = MenosInf /\ val.permissao[k] = 0
                ilegal(k) ==
                    \/ listEstadosVisitados[k]
                    \/ d /\ dem + Demanda(ambiente, k) > ambiente.Capacidade
            IN  /\ DOMAIN val.acoes = Nos
                /\ DOMAIN val.permissao = Nos
                /\ \A k \in Nos :
                     /\ marcado(k) <=> ilegal(k)
                     /\ ~ilegal(k) => val.acoes[k] = linha[k] /\ val.permissao[k] = 1
                     /\ (~d /\ ~listEstadosVisitados[k]) => ~marcado(k)

\* A routing step whose route would overflow with an unvisited customer that
\* is filtered in dynamic mode only, next to one with a learnt value.
C12_Witness ==
    /\ NaCabecaDoLaco
    /\ LET v == IF Dinamico THEN veiculo ELSE EscolheRota(rotas)
           est == IF Dinamico THEN estado ELSE Ultimo(rotas[v + 1].Consumidores)
           dem == rotas[v + 1].Demanda
           din == ValidaAcoes(LinhaPolitica(est), listEstadosVisitados, dem, ambiente, TRUE)
           fix == ValidaAcoes(LinhaPolitica(est), listEstadosVisitados, dem, ambiente, FALSE)
       IN  /\ \E k \in Consumidores :
                /\ ~listEstadosVisitados[k]
                /\ dem + Demanda(ambiente, k) > ambiente.Capacidade
                /\ din.permissao[k] = 0
                /\ fix.permissao[k] = 1
           /\ \E k \in Nos : fix.permissao[k] = 1 /\ fix.acoes[k] # Zero

\* The masked value vector of the Politica call the routing loop is about to
\* make, and the indices its legality vector allows.
AcoesAtuais ==
    IF Dinamico
    THEN ValidaAcoes(LinhaPolitica(estado), listEstadosVisitados,
                     rotas[veiculo + 1].Demanda, ambiente, TRUE).acoes
    ELSE LET v == EscolheRota(rotas)
         IN  ValidaAcoes(LinhaPolitica(Ultimo(rotas[v + 1].Consumidores)),
                         listEstadosVisitados, rotas[v + 1].Demanda,
                         ambiente, FALSE).acoes

Legais == {k \in Nos : PermissaoAtual[k] = 1}

\* C13 -- Politica, exploit branch (draw u <= epsilon): given at least one
\* legal action, the returned index is a legal action whose masked value is
\* the maximum over the legal actions, and the smallest index among those.
C13_Explotacao ==
    (NaCabecaDoLaco /\ Legais # {}) =>
        \A u \in Sorteios, k \in Sorteaveis(PermissaoAtual) :
            u <= epsilon =>
                LET acao == Politica(epsilon, AcoesAtuais, PermissaoAtual, u, k)
                IN  /\ acao \in Legais
                    /\ \A j \in Legais :
                         /\ ~RLt(AcoesAtuais[acao], AcoesAtuais[j])
                         /\ AcoesAtuais[j] = AcoesAtuais[acao] => acao <= j

\* An exploit call (draw 0) over three legal actions of learnt values whose
\* maximizer is not the first legal index.
C13_Witness ==
    /\ NaCabecaDoLaco
    /\ Cardinality(Legais) >= 3
    /\ LET acao == Politica(epsilon, AcoesAtuais, PermissaoAtual, 0, 0)
       IN  /\ acao \in Legais
           /\ \E j \in Legais : j < acao /\ RLt(AcoesAtuais[j], AcoesAtuais[acao])
           /\ \E j \in Legais : j # acao /\ AcoesAtuais[j] # Zero

\* C14 -- Politica, explore branch (draw u > epsilon): given at least one
\* legal action, the set of indices that can be returned is exactly the set
\* of legal indices, also when legal actions carry equal values.
C14_ExploraTodasAsLegais ==
    (NaCabecaDoLaco /\ Legais # {}) =>
        \A u \in Sorteios :
            u > epsilon =>
                {Politica(epsilon, AcoesAtuais, PermissaoAtual, u, k) :
                    k \in Sorteaveis(PermissaoAtual)} = Legais

\* C15 -- Politica called with no legal action fails with an error on the
\* explore and on the exploit branch; it never returns an action index.
C15_SemAcaoLegalFalha ==
    (NaCabecaDoLaco /\ Legais = {}) =>
        \A u \in Sorteios, k \in Sorteaveis(PermissaoAtual) :
            Politica(epsilon, AcoesAtuais, PermissaoAtual, u, k) = Erro

\* The step appends node a to one of the routes: a is the action it chose.
Escolhida(a) ==
    \E k \in 1..Len(rotas) :
        /\ k <= Len(rotas')
        /\ rotas'[k].Consumidores = Append(rotas[k].Consumidores, a)

\* C16 -- Unguarded reward degeneracy: in every variant a step whose chosen
\* action is a node with demand equal to the vehicle capacity aborts the run
\* in that step (Recompensa divides by zero; no value is written); and in
\* dynamic-fleet mode such a node is legal for ValidaAcoes on an empty route.
C16_RecompensaDegenerada ==
    /\ [](( /\ NaCabecaDoLaco
            /\ Dinamico
            /\ rotas[veiculo + 1].Demanda = 0) =>
                \A a \in Consumidores :
                    ( /\ ~listEstadosVisitados[a]
                      /\ Demanda(ambiente, a) = ambiente.Capacidade) =>
                        PermissaoAtual[a] = 1)
    /\ [][\A a \in Nos :
            (Escolhida(a) /\ Demanda(ambiente, a) = ambiente.Capacidade) =>
                /\ pc' = "erro"
                /\ Q1' = Q1
                /\ Q2' = Q2]_vars

\* A dynamic-fleet run aborted in the step that chose, on an empty route, a
\* customer whose demand equals the capacity.
C16_Witness ==
    /\ pc = "erro"
    /\ Dinamico
    /\ LET cons == rotas[veiculo + 1].Consumidores
       IN  /\ Len(cons) = 2
           /\ cons[1] = 0
           /\ Demanda(ambiente, cons[2]) = ambiente.Capacidade
           /\ listEstadosVisitados[cons[2]]
           /\ QVisitas[0][cons[2]] >= 1

\* C18 -- Fixed-fleet discipline: in the fixed-fleet variants exactly
\* K = ambiente.Veiculos routes exist from episode start to episode end, and
\* every routing step extends one route, the one whose accumulated Demanda
\* was the minimum before the step, the lowest index winning ties.
C18_FrotaFixa ==
    /\ [](~Dinamico => Len(rotas) = ambiente.Veiculos)
    /\ [][(~Dinamico /\ pc = "rota") =>
            /\ Len(rotas') = Len(rotas)
            /\ pc' \in {"rota", "fecha"} => \E a \in Nos : Escolhida(a)
            /\ \A k \in 1..Len(rotas) :
                 rotas'[k] # rotas[k] =>
                    /\ \E a \in Nos : rotas'[k] = AtualizaRota(rotas[k], Ultimo(rotas[k].Consumidores), a, ambiente)
                    /\ \A j \in 1..Len(rotas) :
                         /\ rotas[k].Demanda <= rotas[j].Demanda
                         /\ j < k => rotas[j].Demanda # rotas[k].Demanda]_vars

\* The end of a fixed-fleet routing loop over two routes in which the first
\* route was extended a second time after the second route had been served.
C18_Witness ==
    /\ ~Dinamico
    /\ pc = "fecha"
    /\ veiculo = 0
    /\ Len(rotas) = 2
    /\ Len(rotas[1].Consumidores) = 3
    /\ Len(rotas[2].Consumidores) = 2
    /\ rotas[2].Demanda >= 2

\* C19 -- Dynamic-fleet discipline: in the dynamic variants a routing step
\* appends a new route [0] with zero demand and cost and increments the
\* current-vehicle index by one exactly when it chose action 0 while at least
\* one customer is still unvisited; at every routing step the current-vehicle
\* index is (number of routes - 1), only the last route is extended and the
\* earlier routes are not modified.
C19_FrotaDinamica ==
    /\ []((Dinamico /\ pc = "rota") => veiculo = Len(rotas) - 1)
    /\ [][(Dinamico /\ pc = "rota") =>
            LET n == Len(rotas)
                abriu == Len(rotas') = n + 1
                voltou == rotas'[n].Consumidores = Append(rotas[n].Consumidores, 0)
                pendente == \E c \in Consumidores : ~listEstadosVisitados'[c]
            IN  /\ Len(rotas') \in {n, n + 1}
                /\ abriu <=> (voltou /\ pendente)
                /\ abriu => rotas'[n + 1] = RotaNova /\ veiculo' = veiculo + 1
                /\ ~abriu => veiculo' = veiculo
                /\ \A k \in 1..(n - 1) : rotas'[k] = rotas[k]
                /\ rotas'[n] # rotas[n] =>
                     \E a \in Nos : rotas'[n] = AtualizaRota(rotas[n], estado, a, ambiente)]_vars

\* The head of a dynamic-fleet routing step on a third route that already
\* holds a customer, the first two routes closed by a return to the depot.
C19_Witness ==
    /\ Dinamico
    /\ pc = "rota"
    /\ Len(rotas) = 3
    /\ veiculo = 2
    /\ \A k \in 1..2 :
         /\ Len(rotas[k].Consumidores) >= 3
         /\ Ultimo(rotas[k].Consumidores) = 0
    /\ Len(rotas[3].Consumidores) >= 2

\* The bootstrap value as C20 words it: over the actions ValidaAcoes allows
\* from node a under the visited set vis and the route demand dem.
FuturoPelasLegais(Qboot, a, vis, dem) ==
    LET p == ValidaAcoes(Qboot[a], vis, dem, ambiente, Dinamico).permissao
        L == {k \in Nos : p[k] = 1}
    IN  IF L = {}
        THEN IF Dinamico THEN Zero ELSE Qboot[a][0]
        ELSE CHOOSE x \in {Qboot[a][k] : k \in L} :
                 \A k \in L : ~RLt(x, Qboot[a][k])

\* C20 -- Bootstrap target: in a routing step from node s to node a the
\* futureValue of the TD target is 0 (dynamic fleet) or the bootstrap table's
\* value of returning from a to the depot (fixed fleet) exactly when no action
\* is legal from a under the updated visited set and route demand, and
\* otherwise the maximum of the bootstrap table's row a over the actions legal
\* from a.  "Updated" is read both ways the step allows: the visited set
\* with a marked, before or after the depot is unmarked, and the demand of
\* the route just extended or of the route the next step extends.
C20_AlvoPelasLegais ==
    NaCabecaDoLaco =>
        \A u \in Sorteios, moeda \in Moedas, k \in Sorteaveis(PermissaoAtual) :
            LET v == IF Dinamico THEN veiculo ELSE EscolheRota(rotas)
                est == IF Dinamico THEN estado ELSE Ultimo(rotas[v + 1].Consumidores)
                acao == Politica(epsilon, AcoesAtuais, PermissaoAtual, u, k)
                acoes2 == [AcoesAtuais EXCEPT ![acao] = MenosInf]
                Qboot == IF Duplo /\ moeda = "1" THEN Q2 ELSE Q1
                vis2 == [listEstadosVisitados EXCEPT ![acao] = TRUE]
                vis3 == IF Dinamico THEN DepositoReaberto(vis2, acao) ELSE vis2
                rota2 == AtualizaRota(rotas[v + 1], est, acao, ambiente)
                dem3 == IF Dinamico /\ AbreRota(vis2, acao) THEN 0 ELSE rota2.Demanda
            IN  acao # Erro =>
                    ValorAcaoFutura(Qboot, acoes2, acao) \in
                        {FuturoPelasLegais(Qboot, acao, vis, dem) :
                            vis \in {vis2, vis3}, dem \in {rota2.Demanda, dem3}}

\* The step appends node a to route k (1-based): a credit-assignment step of
\* that route for the pair (last node of the route, a).
PassoDe(k, a) ==
    /\ k <= Len(rotas')
    /\ rotas'[k].Consumidores = Append(rotas[k].Consumidores, a)

\* valorAcaoFutura of the step that chooses a, read from table Qboot: zero on
\* a closing leg, else taken through the masked vector of the routing step.
FuturoDoPasso(Qboot, a) ==
    IF pc = "fecha" THEN Zero
    ELSE ValorAcaoFutura(Qboot, [AcoesAtuais EXCEPT ![a] = MenosInf], a)

\* old + 1/(1 + visits after the increment) * (reward + discount*fut - old)
UmPasso(old, visitas, est, a, fut) ==
    LET taxa == Rat(1, 1 + visitas)
        recompensa == Rat(-Distancia(ambiente, est, a),
                          ambiente.Capacidade - Demanda(ambiente, a))
    IN  RAdd(old, RMul(taxa, RSub(RAdd(recompensa, RMul(taxaDesconto, fut)), old)))

\* C21 -- With lambda = 0 every step (routing step or closing leg) of every
\* variant changes at most one value-table entry, [estado][acao] of the table
\* being updated, to old + learningRate * (reward + discount*futureValue - old)
\* with learningRate = 1/(1 + visit count after the increment); every other
\* entry of every value table is unchanged, and a step that chooses no action
\* changes no value.
C21_LambdaZero ==
    [][lambd = Zero =>
        /\ (\A k \in 1..Len(rotas), a \in Nos : ~PassoDe(k, a)) =>
                Q1' = Q1 /\ Q2' = Q2
        /\ \A k \in 1..Len(rotas), a \in Nos :
             PassoDe(k, a) =>
                LET est == Ultimo(rotas[k].Consumidores)
                    vis == QVisitas'[est][a]
                IN  /\ vis = QVisitas[est][a] + 1
                    /\ \A x \in Nos, y \in Nos :
                         <<x, y>> # <<est, a>> =>
                            Q1'[x][y] = Q1[x][y] /\ Q2'[x][y] = Q2[x][y]
                    /\ Q1' = Q1 \/ Q2' = Q2
                    /\ pc' = "erro" => Q1' = Q1 /\ Q2' = Q2
                    /\ pc' # "erro" =>
                         IF Duplo
                         THEN \/ /\ Q2' = Q2
                                 /\ Q1'[est][a] =
                                      UmPasso(Q1[est][a], vis, est, a, FuturoDoPasso(Q2, a))
                              \/ /\ Q1' = Q1
                                 /\ Q2'[est][a] =
                                      UmPasso(Q2[est][a], vis, est, a, FuturoDoPasso(Q1, a))
                         ELSE /\ Q2' = Q2
                              /\ Q1'[est][a] =
                                   UmPasso(Q1[est][a], vis, est, a, FuturoDoPasso(Q1, a))]_vars

\* A later episode of a lambda = 0 run in which a routing step has just moved
\* from a customer along a pair with an earlier visit and a learnt value.
C21_Witness ==
    /\ lambd = Zero
    /\ pc = "rota"
    /\ i >= 1
    /\ \E k \in 1..Len(rotas) :
         LET cons == rotas[k].Consumidores
         IN  /\ Len(cons) >= 3
             /\ QVisitas[cons[Len(cons) - 1]][cons[Len(cons)]] >= 2
             /\ Q1[cons[Len(cons) - 1]][cons[Len(cons)]] # Zero

\* The backward walk as C22 words it: one increment passo = learningRate *
\* tdError, fixed before the walk, scaled by each pair's eligibility, which is
\* then multiplied by lambda * discount.
RECURSIVE RetrocedeErroUnico(_, _, _, _, _)
RetrocedeErroUnico(Qt, El, cons, j, passo) ==
    IF j = 0 THEN [Q |-> Qt, E |-> El]
    ELSE LET u == cons[j]
             v == cons[j + 1]
             Qn == [Qt EXCEPT ![u][v] = RAdd(Qt[u][v], RMul(passo, El[u][v]))]
             En == [El EXCEPT ![u][v] = RMul(RMul(lambd, taxaDesconto), El[u][v])]
         IN  RetrocedeErroUnico(Qn, En, cons, j - 1, passo)

\* Tables after a lambda > 0 step of route k choosing a, updating table Qt
\* with bootstrap table Qboot, under a single TD error.
ComErroUnico(Qt, Qboot, k, a) ==
    LET est == Ultimo(rotas[k].Consumidores)
        cons == rotas'[k].Consumidores
        E2 == [QElegibilidade EXCEPT ![est][a] = RAdd(@, RInt(1))]
        recompensa == Rat(-Distancia(ambiente, est, a),
                          ambiente.Capacidade - Demanda(ambiente, a))
        erro == RSub(RAdd(recompensa, RMul(taxaDesconto, FuturoDoPasso(Qboot, a))),
                     Qt[est][a])
        passo == RMul(Rat(1, 1 + QVisitas'[est][a]), erro)
    IN  RetrocedeErroUnico(Qt, E2, cons, Len(cons) - 1, passo)

\* C22 -- With lambda > 0 one step computes a single TD error, reward +
\* discount*futureValue - Q[state][action] with the value Q[state][action]
\* had before any update of the step, and applies that TD error and the same
\* learning rate to every consecutive pair (u,v) of the current route in the
\* backward walk: Q[u][v] grows by learningRate * tdError * eligibility[u][v],
\* then eligibility[u][v] is multiplied by lambda * discount.
C22_ErroUnico ==
    [][lambd # Zero =>
        \A k \in 1..Len(rotas), a \in Nos :
            (PassoDe(k, a) /\ pc' # "erro") =>
                IF Duplo
                THEN \/ /\ Q2' = Q2
                        /\ Q1' = ComErroUnico(Q1, Q2, k, a).Q
                        /\ QElegibilidade' = ComErroUnico(Q1, Q2, k, a).E
                     \/ /\ Q1' = Q1
                        /\ Q2' = ComErroUnico(Q2, Q1, k, a).Q
                        /\ QElegibilidade' = ComErroUnico(Q2, Q1, k, a).E
                ELSE /\ Q1' = ComErroUnico(Q1, Q1, k, a).Q
                     /\ QElegibilidade' = ComErroUnico(Q1, Q1, k, a).E]_vars

\* The consecutive pairs (u, v) of a route's node sequence.
Pares(cons) == {<<cons[j], cons[j + 1]>> : j \in 1..(Len(cons) - 1)}

\* C23 -- Trace locality: in every variant a credit-assignment step for one
\* vehicle (routing step or closing leg) modifies eligibility and value
\* entries only for pairs (u,v) that are consecutive in that vehicle's own
\* route, and the eligibility entry of a pair traversed by a different route
\* of the same episode is not changed by the step.
C23_TracoLocal ==
    [][\A k \in 1..Len(rotas), a \in Nos :
          PassoDe(k, a) =>
             LET proprios == Pares(rotas'[k].Consumidores)
                 alheios == UNION {Pares(rotas[m].Consumidores) :
                                      m \in (1..Len(rotas)) \ {k}}
             IN  /\ \A x \in Nos, y \in Nos :
                      <<x, y>> \notin proprios =>
                         /\ QElegibilidade'[x][y] = QElegibilidade[x][y]
                         /\ Q1'[x][y] = Q1[x][y]
                         /\ Q2'[x][y] = Q2[x][y]
                 /\ \A p \in alheios :
                      QElegibilidade'[p[1]][p[2]] = QElegibilidade[p[1]][p[2]]]_vars

\* Table Qt after the step of route k choosing a, with valorAcaoFutura read
\* from Qboot.
Atualizada(Qt, Qboot, k, a) ==
    LET est == Ultimo(rotas[k].Consumidores)
        E2 == [QElegibilidade EXCEPT ![est][a] = RAdd(@, RInt(1))]
    IN  Credito(Qt, E2, QVisitas', rotas'[k].Consumidores, est, a,
                Distancia(ambiente, est, a), FuturoDoPasso(Qboot, a)).Q

\* C24 -- Double-estimator step: in the two double variants every step
\* (routing step or closing leg) that is carried out updates exactly one of
\* the two tables: either Q1 receives the update whose bootstrap value is
\* read from Q2 and Q2 is left entirely unchanged, or Q2 receives the update
\* whose bootstrap value is read from Q1 and Q1 is left entirely unchanged.
C24_UmaTabela ==
    [][Duplo =>
        \A k \in 1..Len(rotas), a \in Nos :
            (PassoDe(k, a) /\ pc' # "erro") =>
                \/ /\ Q2' = Q2
                   /\ Q1' = Atualizada(Q1, Q2, k, a)
                \/ /\ Q1' = Q1
                   /\ Q2' = Atualizada(Q2, Q1, k, a)]_vars

\* A double-table run whose tables differ in a row a routing step can
\* bootstrap from, with both tables already written.
C24_Witness ==
    /\ Duplo
    /\ NaCabecaDoLaco
    /\ i >= 1
    /\ \E a \in Legais, y \in Nos :
         /\ Q1[a][y] # Q2[a][y]
         /\ ValorAcaoFutura(Q1, [AcoesAtuais EXCEPT ![a] = MenosInf], a)
              # ValorAcaoFutura(Q2, [AcoesAtuais EXCEPT ![a] = MenosInf], a)
    /\ \E x \in Nos, y \in Nos : Q1[x][y] # Zero
    /\ \E x \in Nos, y \in Nos : Q2[x][y] # Zero

\* Sum of the demands of the nodes cons[1..j].
RECURSIVE SomaDemandas(_, _)
SomaDemandas(cons, j) ==
    IF j = 0 THEN 0 ELSE Demanda(ambiente, cons[j]) + SomaDemandas(cons, j - 1)

\* Sum of the distances of the legs (cons[1],cons[2]) .. (cons[j-1],cons[j]).
RECURSIVE SomaTrechos(_, _)
SomaTrechos(cons, j) ==
    IF j <= 1 THEN 0
    ELSE Distancia(ambiente, cons[j - 1], cons[j]) + SomaTrechos(cons, j - 1)

\* C25 -- Route ledger consistency: in every variant, at every reachable
\* state each route's Demanda is the sum of the demands of the nodes of its
\* Consumidores sequence and its Custo is the sum of the distances of the
\* consecutive legs of that sequence; a routing step or closing leg changes
\* only the route given to AtualizaRota, by appending exactly one node, and
\* leaves every other route unchanged.
C25_LivroDaRota ==
    /\ [](\A k \in 1..Len(rotas) :
            LET cons == rotas[k].Consumidores
            IN  /\ rotas[k].Demanda = SomaDemandas(cons, Len(cons))
                /\ rotas[k].Custo = SomaTrechos(cons, Len(cons)))
    /\ [][(pc = "rota" \/ pc = "fecha") =>
            /\ Len(rotas') >= Len(rotas)
            /\ \A k \in 1..Len(rotas) :
                 rotas'[k] # rotas[k] =>
                    /\ \E a \in Nos : PassoDe(k, a)
                    /\ \A m \in (1..Len(rotas)) \ {k} : rotas[m] = rotas'[m]]_vars

\* A finished episode with two closed routes that carry demand, the first
\* with at least two customers, of different cost.
C25_Witness ==
    /\ pc = "done"
    /\ Len(rotas) >= 2
    /\ Len(rotas[1].Consumidores) >= 4
    /\ Len(rotas[2].Consumidores) >= 3
    /\ rotas[1].Demanda > 0
    /\ rotas[2].Demanda > 0
    /\ rotas[1].Custo # rotas[2].Custo

\* Largest minus smallest accumulated Demanda over the routes.
Desequilibrio ==
    LET D == {rotas[k].Demanda : k \in 1..Len(rotas)}
    IN  (CHOOSE x \in D : \A y \in D : x >= y) - (CHOOSE x \in D : \A y \in D : x <= y)

\* Largest single customer demand of the environment.
MaiorDemanda ==
    LET D == {Demanda(ambiente, c) : c \in Consumidores}
    IN  CHOOSE x \in D : \A y \in D : x >= y

\* C26 -- Load balance of the fixed-fleet variants: at every reachable state
\* of the routing loop (and of the closing legs after it) the difference
\* between the largest and the smallest accumulated route Demanda is at most
\* the largest single customer demand of the environment.
C26_Equilibrio ==
    (~Dinamico /\ pc \in {"rota", "fecha", "erro"}) => Desequilibrio <= MaiorDemanda

\* Inside the routing loop over two routes, the first one loaded, with the
\* difference equal to the largest customer demand and a customer pending.
C26_Witness ==
    /\ ~Dinamico
    /\ NaCabecaDoLaco
    /\ Len(rotas) = 2
    /\ rotas[1].Demanda > 0
    /\ Desequilibrio = MaiorDemanda

\* Sum of all entries of QVisitas.
RECURSIVE SomaLinha(_, _)
SomaLinha(linha, n) == IF n < 0 THEN 0 ELSE linha[n] + SomaLinha(linha, n - 1)

RECURSIVE SomaMatriz(_, _)
SomaMatriz(M, n) ==
    IF n < 0 THEN 0
    ELSE SomaLinha(M[n], quantidadeEstados - 1) + SomaMatriz(M, n - 1)

TotalVisitas == SomaMatriz(QVisitas, quantidadeEstados - 1)

\* Nodes appended to the routes since the episode started.
RECURSIVE Acrescentados(_, _)
Acrescentados(rs, k) ==
    IF k > Len(rs) THEN 0
    ELSE (Len(rs[k].Consumidores) - 1) + Acrescentados(rs, k + 1)

\* The route holds the depot at position 1 and nowhere after it.
SoSaiDoDeposito(cons) ==
    /\ cons[1] = 0
    /\ \A j \in 2..Len(cons) : cons[j] # 0

\* The route holds the depot as first and last element and nowhere else.
RotaFechada(cons) ==
    /\ Len(cons) >= 2
    /\ cons[1] = 0
    /\ cons[Len(cons)] = 0
    /\ \A j \in 2..(Len(cons) - 1) : cons[j] # 0

PassosPorEpisodio == (quantidadeEstados - 1) + ambiente.Veiculos

\* C27 -- Fixed-fleet step structure: in the fixed-fleet variants the depot
\* is never selected by a routing step (listEstadosVisitados[0] stays True),
\* an episode performs routing steps, one per customer, up to exactly N-1 and
\* only then closing legs, one per route, up to exactly K, so every finalized
\* route holds 0 only as its first and last element, and the total of
\* QVisitas grows by one per step and by exactly (N-1)+K per episode.
C27_EstruturaFixa ==
    /\ [](~Dinamico =>
            /\ listEstadosVisitados[0] = TRUE
            /\ TotalVisitas = i * PassosPorEpisodio + Acrescentados(rotas, 1)
            /\ pc \in {"rota", "erro"} =>
                 /\ \A k \in 1..Len(rotas) : SoSaiDoDeposito(rotas[k].Consumidores)
                 /\ Acrescentados(rotas, 1) =
                      Cardinality({c \in Consumidores : listEstadosVisitados[c]})
            /\ pc = "rota" => Acrescentados(rotas, 1) < quantidadeEstados - 1
            /\ pc = "fecha" =>
                 /\ \A c \in Consumidores : listEstadosVisitados[c]
                 /\ Acrescentados(rotas, 1) = (quantidadeEstados - 1) + veiculo
                 /\ \A k \in 1..Len(rotas) :
                      IF k <= veiculo THEN RotaFechada(rotas[k].Consumidores)
                      ELSE SoSaiDoDeposito(rotas[k].Consumidores)
            /\ pc \in {"registra", "done", "fim"} =>
                 /\ Acrescentados(rotas, 1) = PassosPorEpisodio
                 /\ TotalVisitas = (i + 1) * PassosPorEpisodio
                 /\ \A k \in 1..Len(rotas) : RotaFechada(rotas[k].Consumidores))
    /\ [][(~Dinamico /\ pc = "rota") => ~Escolhida(0)]_vars

\* The end of the second episode of a fixed-fleet run over two routes and
\* three customers.
C27_Witness ==
    /\ ~Dinamico
    /\ pc = "done"
    /\ i = 1
    /\ Len(rotas) = 2
    /\ quantidadeEstados = 4
    /\ TotalVisitas = 10

\* A dynamic-fleet run in which every customer's demand is strictly below the
\* capacity.
DemandasAbaixoDaCapacidade ==
    /\ Dinamico
    /\ \A c \in Consumidores : Demanda(ambiente, c) < ambiente.Capacidade

\* C28 -- Dynamic-fleet step bound: in the dynamic variants, when every
\* customer's demand is strictly below the capacity, the depot is never
\* chosen from the depot, so every route opened holds at least one customer,
\* the number of routes is at most N-1, the routing loop runs exactly
\* (N-1) + (number of routes) steps, at most 2(N-1), and the last step of
\* every episode is a move to the depot.
C28_LimiteDinamico ==
    /\ [](DemandasAbaixoDaCapacidade =>
            /\ pc # "erro"
            /\ Len(rotas) <= quantidadeEstados - 1
            /\ Acrescentados(rotas, 1) <= 2 * (quantidadeEstados - 1)
            /\ \A k \in 1..(Len(rotas) - 1) :
                 /\ RotaFechada(rotas[k].Consumidores)
                 /\ Len(rotas[k].Consumidores) >= 3
            /\ pc = "rota" => SoSaiDoDeposito(rotas[Len(rotas)].Consumidores)
            /\ pc \in {"finaliza", "registra", "done", "fim"} =>
                 /\ estado = 0
                 /\ \A c \in Consumidores : listEstadosVisitados[c]
                 /\ RotaFechada(rotas[Len(rotas)].Consumidores)
                 /\ Len(rotas[Len(rotas)].Consumidores) >= 3
                 /\ Acrescentados(rotas, 1) = (quantidadeEstados - 1) + Len(rotas))
    /\ [][(DemandasAbaixoDaCapacidade /\ pc = "rota") =>
            /\ \A k \in 1..Len(rotas) :
                 PassoDe(k, 0) => Ultimo(rotas[k].Consumidores) # 0
            /\ pc' = "finaliza" => PassoDe(Len(rotas), 0)]_vars

\* The end of a dynamic-fleet episode over three customers that used one
\* route per customer: N-1 routes and 2(N-1) steps.
C28_Witness ==
    /\ DemandasAbaixoDaCapacidade
    /\ pc = "done"
    /\ quantidadeEstados = 4
    /\ Len(rotas) = 3
    /\ Acrescentados(rotas, 1) = 6

====
